---- MODULE Spec2Model ----
(***************************************************************************)
(* Pattern extraction and incremental aggregation engine of the paywall    *)
(* generator backend (src/backend/server.js).                              *)
(*                                                                         *)
(* JavaScript values are modelled as tagged records, so that the typeof    *)
(* tests of the code can be evaluated:                                     *)
(*   a number  is [type |-> "number", v |-> n], n in thousandths (fixed    *)
(*             point: 1.5 is 1500), which holds every tolerance of the     *)
(*             merge exactly (0.05 is 50);                                 *)
(*   a string  is [type |-> "string", v |-> s];                            *)
(*   undefined is [type |-> "undefined"].                                  *)
(* An object is a function from property names to values; a property the   *)
(* object lacks is absent from its DOMAIN.  An array is a sequence.        *)
(***************************************************************************)
EXTENDS Integers, Sequences, FiniteSets, TLC

VARIABLES
    paywallPatterns,  \* the module-level aggregate profile (server.js:35)
    merged,           \* history: snapshots passed to mergePaywallPatterns since the last reset
    last,             \* history: the last call made on the profile, with what it started from
    inflight,         \* requests accepted by the server whose handler has not run yet
    running,          \* the handler on the call stack: what it still has to do
    serial            \* history: the profile had every dispatched handler run on its own

vars == <<paywallPatterns, merged, last, inflight, running, serial>>

----------------------------------------------------------------------------
(* JavaScript values *)

Num(n) == [type |-> "number", v |-> n]

Str(s) == [type |-> "string", v |-> s]

undefined == [type |-> "undefined"]

\* JavaScript truthiness of a number, a string or undefined.
Falsy(x) ==
    \/ x.type = "undefined"
    \/ x.type = "number" /\ x.v = 0
    \/ x.type = "string" /\ x.v = ""

Abs(n) == IF n < 0 THEN -n ELSE n

\* Array.prototype.slice(0, limit)
Take(s, limit) == IF Len(s) <= limit THEN s ELSE SubSeq(s, 1, limit)

\* Array.prototype.slice(-n)
TakeLast(s, n) == IF Len(s) <= n THEN s ELSE SubSeq(s, Len(s) - n + 1, Len(s))

\* Array.prototype.includes
Includes(s, x) == \E i \in 1..Len(s) : s[i] = x

\* Array.prototype.sort((a, b) => a - b) on an array of numbers.
SortAsc(s) == SortSeq(s, LAMBDA a, b : a.v < b.v)

\* Mutant: the target's value kept where both have the key.
ObjectAssign_targetWins(target, source) ==
    [k \in (DOMAIN target) \cup (DOMAIN source) |->
        IF k \in DOMAIN target THEN target[k] ELSE source[k]]

\* Object.assign(target, source) on objects given as functions.
ObjectAssign(target, source) ==
    [k \in (DOMAIN target) \cup (DOMAIN source) |->
        IF k \in DOMAIN source THEN source[k] ELSE target[k]]

\* A value that is not an array, where an array could stand (a field of an
\* object handed to mergePaywallPatterns): it is kept under the index 0,
\* which no sequence has, so that Array.isArray can tell the two apart.
NotArray(x) == [i \in {0} |-> x]

\* Array.isArray
IsArray(x) == 0 \notin DOMAIN x

\* Reading property `name` of object `obj`: its value, or undefined.
\* A defined property is wrapped so that a list and undefined can be told apart.
Prop(obj, name) ==
    IF name \in DOMAIN obj THEN [defined |-> TRUE, value |-> obj[name]]
    ELSE [defined |-> FALSE]

----------------------------------------------------------------------------
(* The attribute categories *)

\* The 26 category lists, in the order mergePaywallPatterns merges them.
Categories ==
    << "colors", "fonts", "fontSizes", "fontWeights", "lineHeights",
       "letterSpacing", "spacing", "borderRadius", "shadows", "borders",
       "transitions", "transforms", "opacities", "gradients", "zIndex",
       "gaps", "widths", "heights", "displayTypes", "flexProperties",
       "gridProperties", "positions", "textTransforms", "textDecorations",
       "breakpoints", "animations" >>

CategorySet == { Categories[i] : i \in 1..Len(Categories) }

\* The limit argument of each mergeArray call.
mergeLimit ==
    [ colors |-> 40, fonts |-> 20, fontSizes |-> 25, fontWeights |-> 12,
      lineHeights |-> 20, letterSpacing |-> 12, spacing |-> 30,
      borderRadius |-> 20, shadows |-> 20, borders |-> 20, transitions |-> 20,
      transforms |-> 15, opacities |-> 12, gradients |-> 15, zIndex |-> 15,
      gaps |-> 20, widths |-> 20, heights |-> 20, displayTypes |-> 12,
      flexProperties |-> 20, gridProperties |-> 15, positions |-> 8,
      textTransforms |-> 6, textDecorations |-> 8, breakpoints |-> 15,
      animations |-> 15 ]

\* The tolerance argument of each mergeArray call that passes one, in
\* thousandths (1 is 1000, 0.5 is 500, 0.05 is 50).
mergeTolerance ==
    [ fontSizes |-> 1000, fontWeights |-> 50000, lineHeights |-> 500,
      letterSpacing |-> 100, spacing |-> 2000, borderRadius |-> 2000,
      opacities |-> 50, zIndex |-> 10000, gaps |-> 2000, widths |-> 10000,
      heights |-> 10000, breakpoints |-> 20000 ]

\* The categories whose mergeArray call passes a tolerance, which are the
\* categories extractPaywallPatterns converts with .map(Number).
NumericCategories == DOMAIN mergeTolerance

StringCategories == CategorySet \ NumericCategories

\* The tolerance argument of the call for category c; 0 stands for the
\* default null (both are falsy in `tolerance && ...`).
ToleranceArg(c) == IF c \in DOMAIN mergeTolerance THEN mergeTolerance[c] ELSE 0

\* Mutant: the snapshot lists cut with the limits of the merge.
snapshotCap_shared == mergeLimit

\* The slice(0, n) cap extractPaywallPatterns applies to each snapshot list.
snapshotCap ==
    [ colors |-> 30, fonts |-> 15, fontSizes |-> 20, fontWeights |-> 10,
      lineHeights |-> 15, letterSpacing |-> 10, spacing |-> 25,
      borderRadius |-> 15, shadows |-> 15, borders |-> 15, transitions |-> 15,
      transforms |-> 10, opacities |-> 10, gradients |-> 10, zIndex |-> 10,
      gaps |-> 15, widths |-> 15, heights |-> 15, displayTypes |-> 10,
      flexProperties |-> 15, gridProperties |-> 10, positions |-> 5,
      textTransforms |-> 5, textDecorations |-> 5, breakpoints |-> 10,
      animations |-> 10 ]

----------------------------------------------------------------------------
(* mergePaywallPatterns and its helper mergeArray *)

\* target.find((t) => Math.abs(t - item) < tolerance): the first such
\* element, or undefined.
Find(target, item, tolerance) ==
    LET hits == { i \in 1..Len(target) :
                    /\ target[i].type = "number"
                    /\ Abs(target[i].v - item.v) < tolerance }
    IN  IF hits = {} THEN undefined
        ELSE target[CHOOSE i \in hits : \A j \in hits : i <= j]

\* The body of source.forEach: push the item unless it is already there.
\* `!existing` is also true when find returned the number 0.
PushUnique(target, item, tolerance) ==
    IF tolerance # 0 /\ item.type = "number"
    THEN IF Falsy(Find(target, item, tolerance)) THEN Append(target, item) ELSE target
    ELSE IF ~Includes(target, item) THEN Append(target, item) ELSE target

RECURSIVE ForEachPush(_, _, _, _)
ForEachPush(target, source, tolerance, i) ==
    \* (Len(target) < 0 is never true: it has the accumulator evaluated before
    \* the next call, which keeps the evaluation stack shallow; the other
    \* iterations below do the same.)
    IF i > Len(source) \/ Len(target) < 0 THEN target
    ELSE ForEachPush(PushUnique(target, source[i], tolerance), source, tolerance, i + 1)

\* Mutants of the return statements: without the slice, without the sort,
\* and with the slice taken from the end.
SortAndSlice_noSlice(target, limit) ==
    IF Len(target) > 0 /\ target[1].type = "number" THEN SortAsc(target) ELSE target

SortAndSlice_noSort(target, limit) == Take(target, limit)

SortAndSlice_keepLast(target, limit) ==
    IF Len(target) > 0 /\ target[1].type = "number"
    THEN TakeLast(SortAsc(target), limit)
    ELSE TakeLast(target, limit)

\* The two return statements of mergeArray.
SortAndSlice(target, limit) ==
    IF Len(target) > 0 /\ target[1].type = "number"
    THEN Take(SortAsc(target), limit)
    ELSE Take(target, limit)

\* mergeArray(target, source, limit, tolerance); `source` is the property
\* read off the snapshot (Prop), the stored target is always an array.
mergeArray(target, source, limit, tolerance) ==
    IF ~source.defined \/ ~IsArray(source.value) THEN target
    ELSE SortAndSlice(ForEachPush(target, source.value, tolerance, 1), limit)

\* Mutant: the count raised once per category list.
IncrementCount_perCategory(p) == [p EXCEPT !.count = @ + Len(Categories)]

\* paywallPatterns.count += 1
IncrementCount(p) == [p EXCEPT !.count = @ + 1]

\* Mutant: every list merged with the colors of the snapshot.
MergeCategory_fromColors(p, newPatterns, c) ==
    [p EXCEPT ![c] = mergeArray(p[c], Prop(newPatterns, "colors"), mergeLimit[c],
                                ToleranceArg(c))]

\* paywallPatterns.<c> = mergeArray(paywallPatterns.<c>, newPatterns.<c>, limit, tolerance)
MergeCategory(p, newPatterns, c) ==
    [p EXCEPT ![c] = mergeArray(p[c], Prop(newPatterns, c), mergeLimit[c], ToleranceArg(c))]

\* The length past which the layouts history is cut, and the slice(-50) kept.
LayoutsLimit == 50

\* Mutant: the history never cut.
MergeLayouts_noSlice(p, newPatterns) ==
    LET record == IF "layouts" \in DOMAIN newPatterns THEN newPatterns.layouts
                  ELSE undefined
    IN  [p EXCEPT !.layouts = Append(p.layouts, record)]

\* Mutant: the history cut from the front.
MergeLayouts_keepFirst(p, newPatterns) ==
    LET record == IF "layouts" \in DOMAIN newPatterns THEN newPatterns.layouts
                  ELSE undefined
    IN  [p EXCEPT !.layouts = Take(Append(p.layouts, record), LayoutsLimit)]

\* push the snapshot's layouts record, keep the last 50
MergeLayouts(p, newPatterns) ==
    LET record == IF "layouts" \in DOMAIN newPatterns THEN newPatterns.layouts
                  ELSE undefined
        pushed == Append(p.layouts, record)
    IN  [p EXCEPT !.layouts =
            IF Len(pushed) > LayoutsLimit THEN TakeLast(pushed, LayoutsLimit) ELSE pushed]

\* if (newPatterns.commonStyles) Object.assign(paywallPatterns.commonStyles, ...)
MergeCommonStyles(p, newPatterns) ==
    IF "commonStyles" \in DOMAIN newPatterns
    THEN [p EXCEPT !.commonStyles = ObjectAssign(@, newPatterns.commonStyles)]
    ELSE p

\* for each component of the snapshot: Object.assign(profile[component], snapshot[component])
MergeComponentStyles(p, newPatterns) ==
    IF "componentStyles" \in DOMAIN newPatterns
    THEN LET new == newPatterns.componentStyles
             old == p.componentStyles
         IN  [p EXCEPT !.componentStyles =
                [component \in (DOMAIN old) \cup (DOMAIN new) |->
                    IF component \in DOMAIN new
                    THEN ObjectAssign(IF component \in DOMAIN old THEN old[component] ELSE <<>>,
                                      new[component])
                    ELSE old[component]]]
    ELSE p

\* The statements of mergePaywallPatterns, numbered in source order:
\* 0 the count, 1..26 the category lists, 27 layouts, 28 commonStyles,
\* 29 componentStyles.
LastMergeStep == Len(Categories) + 3

MergeStep(p, newPatterns, i) ==
    IF i = 0 THEN IncrementCount(p)
    ELSE IF i <= Len(Categories) THEN MergeCategory(p, newPatterns, Categories[i])
    ELSE IF i = Len(Categories) + 1 THEN MergeLayouts(p, newPatterns)
    ELSE IF i = Len(Categories) + 2 THEN MergeCommonStyles(p, newPatterns)
    ELSE MergeComponentStyles(p, newPatterns)

RECURSIVE MergeFrom(_, _, _)
MergeFrom(p, newPatterns, i) ==
    IF i > LastMergeStep \/ p.count < 0 THEN p
    ELSE MergeFrom(MergeStep(p, newPatterns, i), newPatterns, i + 1)

\* The whole of mergePaywallPatterns(newPatterns) applied to profile p.
mergePaywallPatterns(p, newPatterns) == MergeFrom(p, newPatterns, 0)

\* The object the module starts with.
InitialPaywallPatterns ==
    [c \in CategorySet |-> <<>>] @@
    [layouts |-> <<>>, commonStyles |-> <<>>, componentStyles |-> <<>>, count |-> 0]

\* Mutant: a reset that leaves the colors where they are.
ClearedPaywallPatterns_keepColors ==
    [c \in CategorySet |-> IF c = "colors" THEN paywallPatterns.colors ELSE <<>>] @@
    [layouts |-> <<>>, commonStyles |-> <<>>, componentStyles |-> <<>>, count |-> 0]

\* The object literal the DELETE handler assigns.
ClearedPaywallPatterns ==
    [c \in CategorySet |-> <<>>] @@
    [layouts |-> <<>>, commonStyles |-> <<>>, componentStyles |-> <<>>, count |-> 0]

----------------------------------------------------------------------------
(* extractPaywallPatterns: from the working sets to the snapshot *)

\* The text of a number matched by one of the numeric rules: n thousandths,
\* written in textual form `form` (0: shortest, as in "10"; 1: with a
\* trailing zero, as in "10.0").  Two forms of one number are two strings.
NumText(n, form) == [type |-> "string", v |-> <<n, form>>]

\* Number(text).  The numeric rules match digit strings only, and the
\* font-weight rule adds a keyword only as "400" or "700", so NaN does not arise.
Number(text) == Num(text.v[1])

\* Mutant: a filter that lets every number through.
KeepNumber_all(c, n) == TRUE

\* The .filter of each numeric category after !isNaN(n).
KeepNumber(c, n) ==
    IF c \in {"fontSizes", "lineHeights"} THEN n.v > 0
    ELSE IF c = "opacities" THEN n.v >= 0 /\ n.v <= 1000
    ELSE TRUE

MapNumber(s) == [i \in 1..Len(s) |-> Number(s[i])]

RECURSIVE FilterKeep(_, _, _, _)
FilterKeep(c, s, i, acc) ==
    IF i > Len(s) \/ Len(acc) < 0 THEN acc
    ELSE FilterKeep(c, s, i + 1, IF KeepNumber(c, s[i]) THEN Append(acc, s[i]) ELSE acc)

\* Mutant: the numeric categories left as the texts matched.
ConvertSet_noNumber(c, set) == Take(set, snapshotCap[c])

\* Array.from(patterns.<c>)...slice(0, cap) for category c.
ConvertSet(c, set) ==
    IF c \in NumericCategories
    THEN Take(SortAsc(FilterKeep(c, MapNumber(set), 1, <<>>)), snapshotCap[c])
    ELSE Take(set, snapshotCap[c])

\* The snapshot returned for a document.  The document is given by what the
\* scan of its style text collects: patterns.<c>, a Set in insertion order,
\* patterns.commonStyles, patterns.componentStyles, and the element counts.
extractPaywallPatterns(htmlContent) ==
    [c \in CategorySet |-> ConvertSet(c, htmlContent.patterns[c])] @@
    [layouts |-> htmlContent.layouts,
     commonStyles |-> htmlContent.patterns.commonStyles,
     componentStyles |-> htmlContent.patterns.componentStyles]

----------------------------------------------------------------------------
(* The scan of a document: extractPatternsFromCSS and its callers *)

\* A document is what cheerio.load finds in it:
\*   styles   the contents of its <style> elements, in document order;
\*   inline   the values of its style attributes, in document order;
\*   elements how many elements each selector group of the layouts matches.
\* A style text is a sequence of rule blocks [selector, decls] (an inline
\* style is one block with selector ""), decls a sequence of declarations
\* [prop, val].  An at-rule is written as a declaration: prop "@media" with
\* the min-width/max-width value, prop "@keyframes" with the name.
\* A value is a number with its textual form and unit, or a word:
\*   [kind |-> "num", n |-> thousandths, form |-> 0 or 1, unit |-> "px"]
\*   [kind |-> "word", w |-> "bold"]
\* or the three parts of a border (Border below).
\* form 0 is the shortest text ("10", "1.5"), form 1 the same number with a
\* zero behind the point ("10.0", "1.50").
NumVal(n, form, unit) == [kind |-> "num", n |-> n, form |-> form, unit |-> unit]

Word(w) == [kind |-> "word", w |-> w]

Decl(prop, val) == [prop |-> prop, val |-> val]

Block(selector, decls) == [selector |-> selector, decls |-> decls]

\* The declarations of a style text, in text order.
RECURSIVE Declarations(_)
Declarations(cssText) ==
    IF cssText = <<>> THEN <<>>
    ELSE Head(cssText).decls \o Declarations(Tail(cssText))

\* Set.prototype.add on a Set kept as the sequence of its insertion order.
SetAdd(set, x) == IF Includes(set, x) THEN set ELSE Append(set, x)

\* The digits of a number, as the text writes them.
Digits(n, form) ==
    LET whole == ToString(Abs(n) \div 1000)
        frac == Abs(n) % 1000
        point == IF frac = 0 THEN ""
                 ELSE IF frac % 100 = 0 THEN "." \o ToString(frac \div 100)
                 ELSE IF frac % 10 = 0
                      THEN "." \o (IF frac < 100 THEN "0" ELSE "") \o ToString(frac \div 10)
                 ELSE "." \o (IF frac < 10 THEN "00" ELSE IF frac < 100 THEN "0" ELSE "")
                          \o ToString(frac)
    IN  (IF n < 0 THEN "-" ELSE "") \o whole \o point
        \o (IF form = 0 THEN "" ELSE IF frac = 0 THEN ".0" ELSE "0")

\* A border value `width style color`.
Border(width, style, color) ==
    [kind |-> "border", width |-> width, style |-> style, color |-> color]

\* What ([^;]+) captures of a value, trimmed: its whole text.  (The
\* declarations of the model's documents all end with a semicolon.)
WholeText(val) ==
    IF val.kind = "word" THEN val.w
    ELSE IF val.kind = "num" THEN Digits(val.n, val.form) \o val.unit
    ELSE Digits(val.width.n, val.width.form) \o val.width.unit
            \o " " \o val.style \o " " \o val.color

\* Whether (\w+) matches at the start of a value, and what it captures: a
\* word, or the digits and unit of a number up to the first point.
WordMatches(val) == val.kind = "word" \/ val.n >= 0

WordText(val) ==
    IF val.kind = "word" THEN val.w
    ELSE IF val.n % 1000 = 0 /\ val.form = 0 THEN Digits(val.n, 0) \o val.unit
    ELSE ToString(val.n \div 1000)

\* The property names of the model's documents that each rule's regex finds
\* a match in.  The regexes are not anchored: `width:` is also found in
\* `max-width:`, `height:` in `line-height:`, `transform:` in
\* `text-transform:`, `gap:` in `row-gap:`.
RuleProps ==
    [ fonts |-> {"font-family"},
      fontSizes |-> {"font-size"},
      fontWeights |-> {"font-weight"},
      lineHeights |-> {"line-height"},
      letterSpacing |-> {"letter-spacing"},
      spacing |-> {"padding", "margin", "padding-top", "margin-left"},
      borderRadius |-> {"border-radius"},
      shadows |-> {"box-shadow"},
      borders |-> {"border", "border-top"},
      transitions |-> {"transition"},
      transforms |-> {"transform", "text-transform"},
      opacities |-> {"opacity"},
      gradients |-> {"background", "background-image"},
      zIndex |-> {"z-index"},
      gaps |-> {"gap", "row-gap"},
      widths |-> {"width", "max-width", "min-width"},
      heights |-> {"height", "max-height", "line-height"},
      displayTypes |-> {"display"},
      flexProperties |-> {"flex-direction", "justify-content", "align-items"},
      gridProperties |-> {"grid-template-columns", "grid-area"},
      positions |-> {"position"},
      textTransforms |-> {"text-transform"},
      textDecorations |-> {"text-decoration"},
      breakpoints |-> {"@media"},
      animations |-> {"@keyframes"} ]

\* The tokens colorRegex matches (case-sensitive, anywhere in the text).
IsColorToken(w) == w \in {"#FF0000", "#ff0000", "#00ff00", "#fff", "transparent", "currentColor"}

\* The values the gradient rule takes.
IsGradient(w) == w \in {"linear-gradient(red, blue)", "radial-gradient(red, blue)"}

\* The rules whose number is (\d+) or (-?\d+): they stop at a point.
DigitsOnly == {"fontWeights", "zIndex", "breakpoints"}

\* The rules whose number may start with a minus sign.
SignAllowed == {"letterSpacing", "zIndex"}

\* The text a numeric rule captures of a number, as <<n, form>> (NumText).
NumberCaptured(c, val) ==
    IF c \in DigitsOnly
    THEN NumText((IF val.n < 0 THEN -1 ELSE 1) * (Abs(val.n) \div 1000) * 1000, 0)
    ELSE NumText(val.n, val.form)

\* Whether a numeric rule matches a number after `prop:`.  The breakpoint
\* rule wants the unit right behind the digits.
NumberMatches(c, val) ==
    /\ val.kind = "num"
    /\ val.n >= 0 \/ c \in SignAllowed
    /\ c = "breakpoints" =>
          /\ val.unit \in {"px", "em", "rem"}
          /\ val.n % 1000 = 0
          /\ val.form = 0

\* Mutant: the two keywords taken for each other.
KeywordWeight_swapped(word) ==
    IF word = "normal" THEN << NumText(700000, 0) >>
    ELSE IF word \in {"bold", "bolder"} THEN << NumText(400000, 0) >>
    ELSE << >>

\* The font-weight rule on a keyword.  The alternation (\d+|normal|bold|
\* bolder|lighter) takes the first alternative that matches, so both `bold`
\* and `bolder` are captured as "bold".  "normal" adds "400", "bold" adds
\* "700"; any other capture (lighter, BOLD) is not a number and adds nothing.
KeywordWeight(word) ==
    IF word = "normal" THEN << NumText(400000, 0) >>
    ELSE IF word \in {"bold", "bolder"} THEN << NumText(700000, 0) >>
    ELSE << >>

\* What the rule of category c adds to patterns.<c> for one declaration:
\* the texts, in order (none when the rule does not match).
Captures(c, decl) ==
    LET val == decl.val
        text == WholeText(val)
    IN  IF c = "colors"
        THEN IF val.kind = "word" /\ IsColorToken(val.w) THEN << Str(val.w) >>
             ELSE IF val.kind = "border" /\ IsColorToken(val.color) THEN << Str(val.color) >>
             ELSE << >>
        ELSE IF decl.prop \notin RuleProps[c] THEN << >>
        ELSE IF c = "fontWeights" /\ val.kind = "word"
        THEN KeywordWeight(val.w)
        ELSE IF c \in NumericCategories
        THEN IF NumberMatches(c, val) THEN << NumberCaptured(c, val) >> ELSE << >>
        ELSE IF c \in {"fonts", "shadows", "transitions", "transforms", "textDecorations"}
        THEN << Str(text) >>
        ELSE IF c \in {"displayTypes", "positions", "textTransforms", "animations"}
        THEN IF val.kind = "border" THEN << Str(WordText(val.width)) >>
             ELSE IF WordMatches(val) THEN << Str(WordText(val)) >>
             ELSE << >>
        ELSE IF c \in {"flexProperties", "gridProperties"}
        THEN << Str(decl.prop \o ": " \o text) >>
        ELSE IF c = "gradients"
        THEN IF val.kind = "word" /\ IsGradient(val.w)
             THEN << Str(decl.prop \o ": " \o val.w) >> ELSE << >>
        ELSE \* borders: `${match[1]}px ${match[2]} ${match[3].trim()}`
             IF val.kind = "border" /\ val.width.n >= 0
                /\ val.width.unit \in {"", "px", "rem", "em"}
             THEN << Str(WholeText(val.width) \o "px " \o val.style \o " " \o val.color) >>
             ELSE << >>

\* The loop of one rule over the matches of a text: every capture is added
\* to the working Set.
RECURSIVE AddCaptures(_, _, _, _)
AddCaptures(set, c, decls, i) ==
    IF i > Len(decls) \/ Len(set) < 0 THEN set
    ELSE LET found == Captures(c, decls[i])
         IN  AddCaptures(IF found = << >> THEN set ELSE SetAdd(set, found[1]),
                         c, decls, i + 1)

\* A custom property is a declaration whose name starts with two dashes.
IsCustomProperty(prop) == prop \in {"--a", "--b", "--c"}

\* patterns.commonStyles.cssVariables[varName] = varValue for every match.
RECURSIVE AddCssVariables(_, _, _)
AddCssVariables(commonStyles, decls, i) ==
    IF i > Len(decls) \/ i < 0 THEN commonStyles
    ELSE IF ~IsCustomProperty(decls[i].prop)
    THEN AddCssVariables(commonStyles, decls, i + 1)
    ELSE LET old == IF "cssVariables" \in DOMAIN commonStyles
                    THEN commonStyles.cssVariables ELSE << >>
             set == [name \in {decls[i].prop} |-> WholeText(decls[i].val)]
         IN  AddCssVariables(
                ObjectAssign(commonStyles, [k \in {"cssVariables"} |-> ObjectAssign(old, set)]),
                decls, i + 1)

\* extractPatternsFromCSS(cssText, patterns): the Sets and the custom
\* properties after the rules ran over one style text.
extractPatternsFromCSS(cssText, patterns) ==
    LET decls == Declarations(cssText)
    IN  [c \in CategorySet |-> AddCaptures(patterns[c], c, decls, 1)] @@
        [commonStyles |-> AddCssVariables(patterns.commonStyles, decls, 1),
         componentStyles |-> patterns.componentStyles]

\* $(...).each((i, elem) => extractPatternsFromCSS(text of elem, patterns))
RECURSIVE EachText(_, _, _)
EachText(texts, patterns, i) ==
    IF i > Len(texts) \/ i < 0 THEN patterns
    ELSE EachText(texts, extractPatternsFromCSS(texts[i], patterns), i + 1)

\* The property names a `${prop}:` regex of extractSelectorStyles is found in.
PropFoundIn(prop) ==
    IF prop = "color" THEN {"color", "background-color"} ELSE {prop}

\* propRegex.exec(styleBlock): the value of the first declaration found.
FirstValue(decls, prop) ==
    LET hits == { i \in 1..Len(decls) :
                    decls[i].prop \in PropFoundIn(prop) }
    IN  IF hits = {} THEN << >>
        ELSE << WholeText(decls[CHOOSE i \in hits : \A j \in hits : i <= j].val) >>

\* styles[prop], a Set, after the rule blocks of the selector were searched.
RECURSIVE SelectorValues(_, _, _, _, _)
SelectorValues(cssText, selector, prop, i, set) ==
    IF i > Len(cssText) \/ Len(set) < 0 THEN set
    ELSE LET found == IF cssText[i].selector = selector
                      THEN FirstValue(cssText[i].decls, prop) ELSE << >>
         IN  SelectorValues(cssText, selector, prop, i + 1,
                            IF found = << >> THEN set ELSE SetAdd(set, found[1]))

\* Mutant: the Sets turned into arrays without the slice.
extractSelectorStyles_noSlice(html, selector, properties) ==
    LET cssText == IF html.styles = << >> THEN << >> ELSE html.styles[1]
        styles == [prop \in properties |-> SelectorValues(cssText, selector, prop, 1, << >>)]
    IN  [prop \in { q \in properties : styles[q] # << >> } |-> styles[prop]]

\* extractSelectorStyles($, selector, properties): for every property found
\* in a rule block of the selector, up to 5 of its values.  $("style").html()
\* is the content of the first <style> element.
extractSelectorStyles(html, selector, properties) ==
    LET cssText == IF html.styles = << >> THEN << >> ELSE html.styles[1]
        styles == [prop \in properties |-> SelectorValues(cssText, selector, prop, 1, << >>)]
    IN  [prop \in { q \in properties : styles[q] # << >> } |-> Take(styles[prop], 5)]

\* The selector and the property list of each component archetype.
ComponentSelector ==
    [ buttons |-> "button, .button, [class*='btn']",
      cards |-> ".card, [class*='card']",
      inputs |-> "input, .input, [class*='input']" ]

ComponentProperties ==
    [ buttons |-> {"background", "color", "padding", "border-radius", "font-weight",
                   "font-size", "border", "box-shadow", "transition"},
      cards |-> {"background", "border-radius", "box-shadow", "padding", "border"},
      inputs |-> {"border", "border-radius", "padding", "font-size", "background"} ]

\* extractComponentStyles($, patterns): patterns.componentStyles
extractComponentStyles(html) ==
    LET found == [component \in DOMAIN ComponentSelector |->
                    extractSelectorStyles(html, ComponentSelector[component],
                                          ComponentProperties[component])]
    IN  [component \in { k \in DOMAIN ComponentSelector : DOMAIN found[k] # {} } |->
            found[component]]

\* The empty Sets and objects extractPaywallPatterns starts from.
EmptyPatterns ==
    [c \in CategorySet |-> << >>] @@ [commonStyles |-> << >>, componentStyles |-> << >>]

\* Mutant: the layouts counted only when the document has style text.
ScanDocument_countsNeedStyle(html) ==
    LET styled == EachText(html.styles, EmptyPatterns, 1)
        scanned == EachText(html.inline, styled, 1)
    IN  [ patterns |-> [scanned EXCEPT !.componentStyles = extractComponentStyles(html)],
          layouts |-> IF html.styles = << >> /\ html.inline = << >>
                      THEN [k \in DOMAIN html.elements |-> 0] ELSE html.elements ]

\* extractPaywallPatterns up to its return statement: the working Sets
\* after the <style> elements, the style attributes and the component
\* styles were scanned, and the element counts.
ScanDocument(html) ==
    LET styled == EachText(html.styles, EmptyPatterns, 1)
        scanned == EachText(html.inline, styled, 1)
    IN  [ patterns |-> [scanned EXCEPT !.componentStyles = extractComponentStyles(html)],
          layouts |-> html.elements ]

\* extractPaywallPatterns(htmlContent) of a document given by its text.
ExtractHtml(html) == extractPaywallPatterns(ScanDocument(html))

----------------------------------------------------------------------------
(* The documents uploaded *)

\* A document is given by the tokens its style text holds for every
\* category: a sequence of <<index, form>>, in the order the scan meets them.
\* Index i stands for the i-th multiple of half the category's tolerance in a
\* numeric category (so that neighbouring indices lie within tolerance and
\* indices two apart do not), and for the i-th string in a string category.
\* Only the z-index and letter-spacing rules match a minus sign.
TokenNumber(c, index) ==
    LET half == mergeTolerance[c] \div 2
    IN  IF c \in {"zIndex", "letterSpacing"} THEN index * half ELSE Abs(index) * half

Token(c, tok) ==
    IF c \in NumericCategories THEN NumText(TokenNumber(c, tok[1]), tok[2])
    ELSE Str(c \o "#" \o ToString(tok[1]) \o (IF tok[2] = 0 THEN "" ELSE ".0"))

Evens0To58 == [i \in 1..30 |-> <<2 * (i - 1), 0>>]

Evens88DownTo30 == [i \in 1..30 |-> <<90 - 2 * i, 0>>]

Shapes ==
    << Evens0To58,                       \* more values than any snapshot cap lets through
       Evens88DownTo30,                  \* descending, overlapping the first
       << <<5, 0>>, <<-3, 0>>, <<1, 0>> >>,      \* between the even values; a negative one
       << >>,                            \* a document without style text
       << <<1, 0>>, <<0, 0>>, <<0, 1>> >> >>     \* 0 written in two forms, and a neighbour

Documents == 1..Len(Shapes)

\* The custom properties and the component styles the scan collects.
DocCommonStyles(d) ==
    IF d = 1 THEN [cssVariables |-> [k \in {"--a"} |-> "1"]]
    ELSE IF d = 2 THEN [cssVariables |-> [k \in {"--a", "--b"} |-> "2"]]
    ELSE <<>>

DocComponentStyles(d) ==
    IF d = 1 THEN [buttons |-> [color |-> <<"red">>, padding |-> <<"8px">>]]
    ELSE IF d = 2 THEN [buttons |-> [color |-> <<"blue">>], cards |-> [border |-> <<"0">>]]
    ELSE <<>>

Document(d) ==
    [ patterns |->
        [c \in CategorySet |-> [i \in 1..Len(Shapes[d]) |-> Token(c, Shapes[d][i])]] @@
        [commonStyles |-> DocCommonStyles(d), componentStyles |-> DocComponentStyles(d)],
      layouts |-> [buttons |-> d % 3, cards |-> d % 2, containers |-> 1,
                   inputs |-> 0, modals |-> 0] ]

\* A document with no style text; `mark` elements match the button selectors.
PlainDocument(mark) ==
    [ patterns |->
        [c \in CategorySet |-> <<>>] @@ [commonStyles |-> <<>>, componentStyles |-> <<>>],
      layouts |-> [buttons |-> mark, cards |-> 0, containers |-> 0,
                   inputs |-> 0, modals |-> 0] ]

\* The snapshot of every document, computed once.
Snapshot == [d \in Documents |-> extractPaywallPatterns(Document(d))]

PlainSnapshot == [mark \in 0..1 |-> extractPaywallPatterns(PlainDocument(mark))]

----------------------------------------------------------------------------
(* The handlers, each run to completion *)

\* Bounds of the exploration.
MaxMerges == 3

MaxBatch == 2

Init ==
    /\ paywallPatterns = InitialPaywallPatterns
    /\ merged = <<>>
    /\ last = [op |-> "init"]
    /\ inflight = <<>>
    /\ running = <<>>
    /\ serial = InitialPaywallPatterns

\* extract + merge of each file of one request, in order.
RECURSIVE MergeAll(_, _, _)
MergeAll(p, snapshots, i) ==
    IF i > Len(snapshots) \/ p.count < 0 THEN p
    ELSE MergeAll(mergePaywallPatterns(p, snapshots[i]), snapshots, i + 1)

\* What `last` records of a call of mergePaywallPatterns.
MergeCall(before, newPatterns) ==
    [op |-> "merge", before |-> before, newPatterns |-> newPatterns]

\* POST /api/upload-paywall with a file
UploadPaywall(newPatterns) ==
    /\ paywallPatterns' = mergePaywallPatterns(paywallPatterns, newPatterns)
    /\ merged' = Append(merged, newPatterns)
    /\ last' = MergeCall(paywallPatterns, newPatterns)
    /\ UNCHANGED <<inflight, running, serial>>

\* POST /api/upload-paywall without a file: 400
UploadNoFile ==
    /\ last' = [op |-> "rejected", before |-> paywallPatterns]
    /\ UNCHANGED <<paywallPatterns, merged, inflight, running, serial>>

\* POST /api/upload-paywalls with the files whose snapshots are given
UploadPaywalls(snapshots) ==
    LET n == Len(snapshots)
        before == MergeAll(paywallPatterns, SubSeq(snapshots, 1, n - 1), 1)
    IN  /\ n > 0
        /\ paywallPatterns' = mergePaywallPatterns(before, snapshots[n])
        /\ merged' = merged \o snapshots
        /\ last' = MergeCall(before, snapshots[n])
        /\ UNCHANGED <<inflight, running, serial>>

\* GET /api/paywall-patterns
GetPaywallPatterns ==
    /\ last' = [op |-> "read", before |-> paywallPatterns, patterns |-> paywallPatterns]
    /\ UNCHANGED <<paywallPatterns, merged, inflight, running, serial>>

\* DELETE /api/paywall-patterns; `cleared` tells how much it did away with
DeletePaywallPatterns ==
    /\ paywallPatterns' = ClearedPaywallPatterns
    /\ merged' = <<>>
    /\ last' = [op |-> "reset",
                 cleared |-> [count |-> paywallPatterns.count,
                              colors |-> Len(paywallPatterns.colors)]]
    /\ UNCHANGED <<inflight, running, serial>>

\* The documents sent in batches.
BatchDocuments == {3, 4, 5}

BatchOfDocuments == UNION { [1..n -> BatchDocuments] : n \in 2..MaxBatch }

Upload == \E d \in Documents :
    /\ Len(merged) < MaxMerges
    /\ UploadPaywall(Snapshot[d])

UploadBatch == \E files \in BatchOfDocuments :
    /\ Len(merged) + Len(files) <= MaxMerges
    /\ UploadPaywalls([i \in 1..Len(files) |-> Snapshot[files[i]]])

Next ==
    \/ Upload
    \/ UploadNoFile
    \/ UploadBatch
    \/ GetPaywallPatterns
    \/ DeletePaywallPatterns

Spec == Init /\ [][Next]_vars

----------------------------------------------------------------------------
(* A long run of uploads: the layouts history *)

\* Bounds: the uploads of a run, and how many of them are of a document
\* with a button in it.
MaxHistory == 52

MaxMarked == 1

Marked == { k \in 1..Len(merged) : merged[k].layouts.buttons > 0 }

UploadPlain == \E mark \in 0..1 :
    /\ Len(merged) < MaxHistory
    /\ mark = 1 => Cardinality(Marked) < MaxMarked
    /\ UploadPaywall(PlainSnapshot[mark])

NextHistory ==
    \/ UploadPlain
    \/ DeletePaywallPatterns

SpecHistory == Init /\ [][NextHistory]_vars

----------------------------------------------------------------------------
(* Documents given by their text, uploaded one at a time or in a batch *)

\* <style>body{color:#FF0000;padding:10px;border-radius:8px;}</style>
ScenarioA ==
    << Block("body", << Decl("color", Word("#FF0000")),
                        Decl("padding", NumVal(10000, 0, "px")),
                        Decl("border-radius", NumVal(8000, 0, "px")) >>) >>

\* Numbers written twice, in two forms and with different units; a
\* percentage and a viewport unit; a line-height.
TwoForms ==
    << Block(".a", << Decl("padding", NumVal(10000, 0, "px")),
                      Decl("margin", NumVal(10000, 1, "px")),
                      Decl("font-size", NumVal(16000, 0, "px")),
                      Decl("font-size", NumVal(16000, 1, "em")),
                      Decl("font-size", NumVal(0, 0, "")),
                      Decl("opacity", NumVal(500, 0, "")),
                      Decl("opacity", NumVal(500, 1, "")),
                      Decl("opacity", NumVal(2000, 0, "")),
                      Decl("width", NumVal(50000, 0, "%")),
                      Decl("max-width", NumVal(320000, 0, "px")),
                      Decl("height", NumVal(100000, 0, "vh")),
                      Decl("line-height", NumVal(1500, 0, "")),
                      Decl("border-radius", NumVal(8000, 0, "px")),
                      Decl("border-radius", NumVal(8000, 1, "rem")) >>) >>

\* Font weights as keywords and numbers; negative numbers.
Weights ==
    << Block("h1", << Decl("font-weight", Word("bold")),
                      Decl("font-weight", Word("bolder")),
                      Decl("font-weight", Word("BOLD")),
                      Decl("font-weight", NumVal(700000, 0, "")),
                      Decl("font-weight", Word("normal")),
                      Decl("z-index", NumVal(-1000, 0, "")),
                      Decl("z-index", NumVal(10500, 0, "")),
                      Decl("letter-spacing", NumVal(-500, 0, "px")),
                      Decl("margin", NumVal(-4000, 0, "px")),
                      Decl("margin-left", NumVal(4000, 0, "px")),
                      Decl("gap", NumVal(12000, 0, "px")) >>) >>

\* Custom properties and a rule block of the button selector.
Buttons ==
    << Block(":root", << Decl("--a", Word("#fff")), Decl("--b", NumVal(4000, 0, "px")),
                         Decl("--a", Word("#00ff00")) >>),
       Block("button, .button, [class*='btn']",
             << Decl("background-color", Word("#00ff00")),
                Decl("color", Word("white")),
                Decl("padding", NumVal(8000, 0, "px")),
                Decl("border", Border(NumVal(1000, 0, "px"), "solid", "#fff")),
                Decl("border-radius", NumVal(4000, 0, "px")) >>),
       Block("button, .button, [class*='btn']",
             << Decl("padding", NumVal(12000, 0, "px")) >>) >>

\* The string rules and the at-rules.
Strings ==
    << Block(".b", << Decl("font-family", Word("Inter")),
                      Decl("display", Word("flex")),
                      Decl("flex-direction", Word("column")),
                      Decl("position", Word("absolute")),
                      Decl("text-transform", Word("uppercase")),
                      Decl("text-decoration", Word("underline")),
                      Decl("transition", Word("all 0.3s")),
                      Decl("box-shadow", Word("none")),
                      Decl("background", Word("linear-gradient(red, blue)")),
                      Decl("grid-area", Word("main")),
                      Decl("display", Word("flex")),
                      Decl("@media", NumVal(768000, 0, "px")),
                      Decl("@keyframes", Word("fade")) >>) >>

\* A weight close below bold.
NearBold ==
    << Block("b", << Decl("font-weight", NumVal(680000, 0, "")),
                     Decl("font-weight", Word("bold")) >>) >>

\* Ten weights below bold, more than 50 apart.
ManyWeights ==
    << Block("i", [i \in 1..11 |->
                     IF i = 1 THEN Decl("font-weight", Word("bold"))
                     ELSE Decl("font-weight", NumVal((40 + 60 * (i - 1)) * 1000, 0, ""))]) >>

\* More distinct paddings than the snapshot keeps.
ManyPaddings ==
    << Block(".c", [i \in 1..27 |-> Decl("padding", NumVal((28 - i) * 1000, 0, "px"))]) >>

\* Seven rule blocks of the button selector, each with its own padding.
ManyButtons ==
    [i \in 1..7 |-> Block("button, .button, [class*='btn']",
                          << Decl("padding", NumVal(i * 2000, 0, "px")),
                             Decl("color", Word("white")) >>)]

StyleChoices ==
    { << >>, << ScenarioA >>, << TwoForms >>, << Weights >>, << Buttons >>,
      << Strings >>, << NearBold >>, << ManyWeights >>, << ManyPaddings >>,
      << ManyButtons >>, << ScenarioA, Buttons >> }

InlineChoices ==
    { << >>,
      << << Block("", << Decl("padding", NumVal(10000, 1, "px")),
                         Decl("color", Word("#ff0000")) >>) >>,
         << Block("", << Decl("font-weight", Word("bold")) >>) >> >> }

ElementChoices ==
    { [buttons |-> 0, cards |-> 0, containers |-> 0, inputs |-> 0, modals |-> 0],
      [buttons |-> 2, cards |-> 1, containers |-> 0, inputs |-> 0, modals |-> 0],
      [buttons |-> 1, cards |-> 0, containers |-> 3, inputs |-> 2, modals |-> 1] }

HtmlDocuments ==
    { [styles |-> s, inline |-> i, elements |-> e] :
        s \in StyleChoices, i \in InlineChoices, e \in ElementChoices }

\* The snapshot of every such document, computed once.
HtmlSnapshot == [html \in HtmlDocuments |-> ExtractHtml(html)]

\* Bound: the uploads between two resets.
MaxTextMerges == 1

\* POST /api/upload-paywall with the file `html`
UploadHtmlFile(html) ==
    /\ paywallPatterns' = mergePaywallPatterns(paywallPatterns, HtmlSnapshot[html])
    /\ merged' = Append(merged, HtmlSnapshot[html])
    /\ last' = [op |-> "merge", before |-> paywallPatterns,
                newPatterns |-> HtmlSnapshot[html], html |-> html]
    /\ UNCHANGED <<inflight, running, serial>>

UploadHtml == \E html \in HtmlDocuments :
    /\ Len(merged) < MaxTextMerges
    /\ UploadHtmlFile(html)

NextText ==
    \/ UploadHtml
    \/ UploadNoFile
    \/ DeletePaywallPatterns

SpecText == Init /\ [][NextText]_vars

----------------------------------------------------------------------------
(* Batches some files of which fail *)

\* Bound: the files of a batch.
MaxBatchFiles == 2

\* A file of a batch: its document, and the message of the error that
\* reading or extracting it throws ("" when it throws none).
BatchHtml ==
    { [styles |-> s, inline |-> << >>, elements |-> e] :
        s \in { << >>, << Weights >> }, e \in ElementChoices }

BatchFiles ==
    { [html |-> html, error |-> ""] : html \in BatchHtml } \cup
    { [html |-> CHOOSE html \in BatchHtml : html.styles = << >> /\ html.elements.buttons = 0,
       error |-> m] : m \in {"bad input", "not a buffer"} }

FilesOfBatch == UNION { [1..n -> BatchFiles] : n \in 1..MaxBatchFiles }

\* Mutant of the loop: the first error ends the loop.
RECURSIVE ForEachFile_stopsAtError(_, _, _)
ForEachFile_stopsAtError(acc, files, i) ==
    IF i > Len(files) \/ Len(acc.results) < 0 THEN acc
    ELSE IF files[i].error # ""
    THEN [acc EXCEPT !.results =
              Append(@, [success |-> FALSE, error |-> files[i].error])]
    ELSE LET patterns == HtmlSnapshot[files[i].html]
         IN  ForEachFile_stopsAtError(
                [p |-> mergePaywallPatterns(acc.p, patterns),
                 merged |-> Append(acc.merged, patterns),
                 results |-> Append(acc.results, [success |-> TRUE, patterns |-> patterns])],
                files, i + 1)

\* Mutant of the loop: the count raised for a file that fails, too.
RECURSIVE ForEachFile_countsFailed(_, _, _)
ForEachFile_countsFailed(acc, files, i) ==
    IF i > Len(files) \/ Len(acc.results) < 0 THEN acc
    ELSE IF files[i].error # ""
    THEN ForEachFile_countsFailed(
            [acc EXCEPT !.p = IncrementCount(@),
                        !.results = Append(@, [success |-> FALSE, error |-> files[i].error])],
            files, i + 1)
    ELSE LET patterns == HtmlSnapshot[files[i].html]
         IN  ForEachFile_countsFailed(
                [p |-> mergePaywallPatterns(acc.p, patterns),
                 merged |-> Append(acc.merged, patterns),
                 results |-> Append(acc.results, [success |-> TRUE, patterns |-> patterns])],
                files, i + 1)

\* for (const file of req.files) { try { extract; merge; push } catch { push } }
RECURSIVE ForEachFile(_, _, _)
ForEachFile(acc, files, i) ==
    IF i > Len(files) \/ Len(acc.results) < 0 THEN acc
    ELSE IF files[i].error # ""
    THEN ForEachFile([acc EXCEPT !.results =
                          Append(@, [success |-> FALSE, error |-> files[i].error])],
                     files, i + 1)
    ELSE LET patterns == HtmlSnapshot[files[i].html]
         IN  ForEachFile(
                [p |-> mergePaywallPatterns(acc.p, patterns),
                 merged |-> Append(acc.merged, patterns),
                 results |-> Append(acc.results, [success |-> TRUE, patterns |-> patterns])],
                files, i + 1)

\* POST /api/upload-paywalls with files some of which may throw.  The
\* exploration takes one batch between two resets, into the empty profile
\* or behind one upload.
UploadFiles == \E files \in FilesOfBatch :
    LET done == ForEachFile([p |-> paywallPatterns, merged |-> << >>, results |-> << >>],
                            files, 1)
    IN  /\ last.op \in {"init", "reset", "merge"}
        /\ paywallPatterns' = done.p
        /\ merged' = merged \o done.merged
        /\ last' = [op |-> "batch", before |-> paywallPatterns, files |-> files,
                    results |-> done.results,
                    answer |-> [success |-> TRUE,
                                totalPaywallsAnalyzed |-> done.p.count]]
        /\ UNCHANGED <<inflight, running, serial>>

\* POST /api/upload-paywalls without files: 400
UploadNoFiles ==
    /\ last' = [op |-> "rejected", before |-> paywallPatterns]
    /\ UNCHANGED <<paywallPatterns, merged, inflight, running, serial>>

\* POST /api/upload-paywall with a file that reading or extracting throws
\* on: 500 with the error's message
UploadThrows == \E m \in {"bad input"} :
    /\ last' = [op |-> "failed", before |-> paywallPatterns, error |-> m]
    /\ UNCHANGED <<paywallPatterns, merged, inflight, running, serial>>

\* The upload before the batch.
UploadFirst == \E html \in BatchHtml :
    /\ merged = << >>
    /\ UploadHtmlFile(html)

NextBatch ==
    \/ UploadFirst
    \/ UploadThrows
    \/ UploadFiles
    \/ UploadNoFiles
    \/ DeletePaywallPatterns

SpecBatch == Init /\ [][NextBatch]_vars

----------------------------------------------------------------------------
(* mergePaywallPatterns called with an object that lacks fields *)

\* Bound: the calls between two resets.
MaxPartialMerges == 2

\* The object `obj` without the fields `names`.
Without(obj, names) == [k \in (DOMAIN obj) \ names |-> obj[k]]

\* The object `obj` with a value that is no array in the fields `names`.
WithNotArray(obj, names, x) ==
    [k \in DOMAIN obj |-> IF k \in names THEN NotArray(x) ELSE obj[k]]

\* The objects handed to mergePaywallPatterns: the snapshot of a document,
\* whole (1, 2), without some fields (3..7), without any field (8), with a
\* string or a number where a list is expected (9, 10), and with other
\* top-level keys in commonStyles (11, 12).
PartialObject(k) ==
    IF k = 1 THEN Snapshot[1]
    ELSE IF k = 2 THEN Snapshot[3]
    ELSE IF k = 3 THEN Without(Snapshot[2], {"colors", "spacing"})
    ELSE IF k = 4 THEN Without(Snapshot[2], {"commonStyles"})
    ELSE IF k = 5 THEN Without(Snapshot[2], {"componentStyles"})
    ELSE IF k = 6 THEN Without(Snapshot[2], {"layouts"})
    ELSE IF k = 7 THEN Without(Snapshot[2], CategorySet)
    ELSE IF k = 8 THEN Without(Snapshot[2], DOMAIN Snapshot[2])
    ELSE IF k = 9 THEN WithNotArray(Snapshot[2], {"colors", "fontSizes"}, Str("#fff"))
    ELSE IF k = 10
    THEN WithNotArray(Without(Snapshot[2], {"layouts", "commonStyles", "componentStyles"}),
                      CategorySet, Num(12000))
    ELSE IF k = 11 THEN [Snapshot[4] EXCEPT !.commonStyles = [theme |-> "dark"]]
    ELSE [Snapshot[4] EXCEPT !.commonStyles =
            [theme |-> "light", cssVariables |-> [n \in {"--c"} |-> "3"]]]

PartialObjects == 1..12

\* mergePaywallPatterns(obj)
MergePartial == \E k \in PartialObjects :
    /\ Len(merged) < MaxPartialMerges
    /\ paywallPatterns' = mergePaywallPatterns(paywallPatterns, PartialObject(k))
    /\ merged' = Append(merged, PartialObject(k))
    /\ last' = [op |-> "merge", before |-> paywallPatterns,
                newPatterns |-> PartialObject(k), object |-> k]
    /\ UNCHANGED <<inflight, running, serial>>

NextPartial ==
    \/ MergePartial
    \/ DeletePaywallPatterns

SpecPartial == Init /\ [][NextPartial]_vars

----------------------------------------------------------------------------
(* The guidance text of the generation handler *)

\* The sections of the guidance text, in the order of the text: the
\* category each one lists.
GuidanceCategories ==
    << "colors", "fonts", "fontSizes", "fontWeights", "lineHeights", "spacing",
       "borderRadius", "shadows", "borders", "transitions", "gaps", "breakpoints" >>

\* The n of the slice(0, n) of each section.
displayCount ==
    [ colors |-> 20, fonts |-> 10, fontSizes |-> 12, fontWeights |-> 8,
      lineHeights |-> 10, spacing |-> 15, borderRadius |-> 12, shadows |-> 8,
      borders |-> 8, transitions |-> 8, gaps |-> 10, breakpoints |-> 8 ]

\* The suffix the .map of a section puts behind each value.
displaySuffix ==
    [ colors |-> "", fonts |-> "", fontSizes |-> "px", fontWeights |-> "",
      lineHeights |-> "", spacing |-> "px", borderRadius |-> "px", shadows |-> "",
      borders |-> "", transitions |-> "", gaps |-> "px", breakpoints |-> "px" ]

\* Mutant: a section that lists the whole stored list.
displaySlice_whole(c, list) == list

\* paywallPatterns.<c>.slice(0, n)
displaySlice(c, list) == Take(list, displayCount[c])

\* One section: the values listed, each with its suffix, in order, and the
\* text that stands in for them when the joined string is empty.
Section(c, list) ==
    LET shown == displaySlice(c, list)
    IN  [ items |-> [i \in 1..Len(shown) |-> [value |-> shown[i], suffix |-> displaySuffix[c]]],
          instead |-> IF shown = << >> THEN "None extracted" ELSE "" ]

\* patternGuidance: empty unless a paywall was analyzed, else the headline
\* with the count and one section per category of the list above.
patternGuidance(p) ==
    IF p.count > 0
    THEN [ count |-> p.count,
           sections |-> [i \in 1..Len(GuidanceCategories) |->
                           [category |-> GuidanceCategories[i],
                            text |-> Section(GuidanceCategories[i], p[GuidanceCategories[i]])]] ]
    ELSE [ count |-> 0, sections |-> << >> ]

\* Bound: the uploads between two resets.
MaxGuideMerges == 3

UploadGuide == \E d \in Documents :
    /\ Len(merged) < MaxGuideMerges
    /\ UploadPaywall(Snapshot[d])

\* POST /api/generate-paywall, as far as the guidance text
GeneratePaywall ==
    /\ last' = [op |-> "guidance", patterns |-> paywallPatterns,
                patternGuidance |-> patternGuidance(paywallPatterns)]
    /\ UNCHANGED <<paywallPatterns, merged, inflight, running, serial>>

NextGuide ==
    \/ UploadGuide
    \/ GeneratePaywall
    \/ DeletePaywallPatterns

SpecGuide == Init /\ [][NextGuide]_vars

----------------------------------------------------------------------------
(* Requests in flight: the event loop, one statement at a time *)

\* Bounds: the requests accepted and not yet answered, and the merges
\* between two resets.
MaxInflight == 3

MaxConcMerges == 2

\* Whether a handler of this kind gives up the call stack (awaits) before
\* its last statement.  The upload, batch, GET and DELETE handlers are plain
\* functions without an await; the generation handler is async and awaits
\* before and after it reads the profile for the guidance text.
HandlerYields_awaits(kind) == kind \in {"generate", "upload", "batch"}

HandlerYields(kind) == kind = "generate"

Requests ==
    { [kind |-> "upload", files |-> <<5>>],
      [kind |-> "upload", files |-> <<3>>],
      [kind |-> "batch", files |-> <<3, 5>>],
      [kind |-> "reset", files |-> <<>>],
      [kind |-> "read", files |-> <<>>],
      [kind |-> "generate", files |-> <<>>] }

\* The files in `inflight`, each one merge to come.
RECURSIVE FilesWaiting(_)
FilesWaiting(queue) ==
    IF queue = <<>> THEN 0 ELSE Len(Head(queue).files) + FilesWaiting(Tail(queue))

\* A request arrives and its handler is queued.
Receive == \E r \in Requests :
    /\ Len(inflight) + Len(running) < MaxInflight
    /\ serial.count + FilesWaiting(inflight) + Len(r.files) <= MaxConcMerges
    /\ inflight' = Append(inflight, r)
    /\ UNCHANGED <<paywallPatterns, merged, last, running, serial>>

\* The handlers of `running` other than the one at position h.
Others(h) == SubSeq(running, 1, h - 1) \o SubSeq(running, h + 1, Len(running))

\* The call stack is free for the handler at position h of `running` (0: for
\* a new handler): every other handler that has started is at an await.
StackFree(h) ==
    \A i \in 1..Len(running) : i # h => HandlerYields(running[i].kind)

\* The event loop calls the next queued handler when the call stack is free.
CanDispatch(kind) ==
    /\ inflight # <<>>
    /\ Head(inflight).kind = kind
    /\ StackFree(0)

\* The upload handlers start: each file is extracted and then merged.
DispatchUpload ==
    /\ CanDispatch("upload") \/ CanDispatch("batch")
    /\ LET r == Head(inflight)
           snapshots == [i \in 1..Len(r.files) |-> Snapshot[r.files[i]]]
       IN  /\ running' = Append(running, [kind |-> r.kind, todo |-> snapshots, pc |-> 0])
           /\ serial' = MergeAll(serial, snapshots, 1)
    /\ inflight' = Tail(inflight)
    /\ UNCHANGED <<paywallPatterns, merged, last>>

\* An upload handler executes its next statement of mergePaywallPatterns;
\* after the last statement of its last file it answers with the count it
\* reads.
Step == \E h \in 1..Len(running) :
    LET handler == running[h]
        newPatterns == Head(handler.todo)
        after == MergeStep(paywallPatterns, newPatterns, handler.pc)
    IN  /\ handler.kind \in {"upload", "batch"}
        /\ StackFree(h)
        /\ paywallPatterns' = after
        /\ merged' = IF handler.pc = 0 THEN Append(merged, newPatterns) ELSE merged
        /\ IF handler.pc < LastMergeStep
           THEN /\ running' = [running EXCEPT ![h].pc = @ + 1]
                /\ last' = last
           ELSE IF Len(handler.todo) > 1
           THEN /\ running' = [running EXCEPT ![h].pc = 0, ![h].todo = Tail(@)]
                /\ last' = last
           ELSE /\ running' = Others(h)
                /\ last' = [op |-> "answer", count |-> after.count,
                            expected |-> serial.count]
        /\ UNCHANGED <<inflight, serial>>

\* The GET handler: one statement, which reads the profile.
DispatchRead ==
    /\ CanDispatch("read")
    /\ inflight' = Tail(inflight)
    /\ last' = [op |-> "read", patterns |-> paywallPatterns, expected |-> serial]
    /\ UNCHANGED <<paywallPatterns, merged, running, serial>>

\* The DELETE handler: one assignment.
DispatchReset ==
    /\ CanDispatch("reset")
    /\ inflight' = Tail(inflight)
    /\ paywallPatterns' = ClearedPaywallPatterns
    /\ serial' = ClearedPaywallPatterns
    /\ merged' = <<>>
    /\ last' = [op |-> "reset",
                 cleared |-> [count |-> paywallPatterns.count,
                              colors |-> Len(paywallPatterns.colors)]]
    /\ UNCHANGED running

\* The upload handler of a request without a file: it answers 400.
DispatchRejected ==
    /\ CanDispatch("nofile")
    /\ inflight' = Tail(inflight)
    /\ last' = [op |-> "rejected", before |-> paywallPatterns]
    /\ UNCHANGED <<paywallPatterns, merged, running, serial>>

\* The generation handler starts and awaits the design file.
DispatchGenerate ==
    /\ CanDispatch("generate")
    /\ inflight' = Tail(inflight)
    /\ running' = Append(running, [kind |-> "generate", todo |-> <<>>, pc |-> 0])
    /\ UNCHANGED <<paywallPatterns, merged, last, serial>>

\* Mutant: the guidance text built with splice(0, 20) instead of slice(0, 20).
Guidance_splices == \E h \in 1..Len(running) :
    /\ running[h].kind = "generate"
    /\ StackFree(h)
    /\ running' = Others(h)
    /\ last' = [op |-> "read", patterns |-> paywallPatterns, expected |-> serial]
    /\ paywallPatterns' =
          [paywallPatterns EXCEPT !.colors =
              IF Len(@) > 20 THEN SubSeq(@, 21, Len(@)) ELSE << >>]
    /\ UNCHANGED <<merged, inflight, serial>>

\* The generation handler resumes and builds the guidance text from the
\* profile, in one stretch without an await.
Guidance == \E h \in 1..Len(running) :
    /\ running[h].kind = "generate"
    /\ StackFree(h)
    /\ running' = Others(h)
    /\ last' = [op |-> "read", patterns |-> paywallPatterns, expected |-> serial]
    /\ UNCHANGED <<paywallPatterns, merged, inflight, serial>>

InitConc ==
    /\ paywallPatterns = InitialPaywallPatterns
    /\ merged = <<>>
    /\ last = [op |-> "init"]
    /\ inflight = <<>>
    /\ running = <<>>
    /\ serial = InitialPaywallPatterns

NextConc ==
    \/ Receive
    \/ DispatchUpload
    \/ Step
    \/ DispatchRead
    \/ DispatchReset
    \/ DispatchGenerate
    \/ Guidance

SpecConc == InitConc /\ [][NextConc]_vars

\* The event loop with the requests above and uploads without a file.
\* Bound: the requests accepted and not yet answered.
MaxFrameInflight == 2

ReceiveAny == \E r \in Requests \cup { [kind |-> "nofile", files |-> << >>] } :
    /\ Len(inflight) + Len(running) < MaxFrameInflight
    /\ serial.count + FilesWaiting(inflight) + Len(r.files) <= MaxConcMerges
    /\ inflight' = Append(inflight, r)
    /\ UNCHANGED <<paywallPatterns, merged, last, running, serial>>

NextFrame ==
    \/ ReceiveAny
    \/ DispatchUpload
    \/ Step
    \/ DispatchRead
    \/ DispatchReset
    \/ DispatchGenerate
    \/ Guidance
    \/ DispatchRejected

SpecFrame == InitConc /\ [][NextFrame]_vars

----------------------------------------------------------------------------
(* Properties of the merge *)

\* The capacities and the tolerances (in thousandths) as the claims state them.
DeclaredCapacity ==
    [ colors |-> 40, fonts |-> 20, fontSizes |-> 25, fontWeights |-> 12,
      lineHeights |-> 20, letterSpacing |-> 12, spacing |-> 30,
      borderRadius |-> 20, shadows |-> 20, borders |-> 20, transitions |-> 20,
      transforms |-> 15, opacities |-> 12, gradients |-> 15, zIndex |-> 15,
      gaps |-> 20, widths |-> 20, heights |-> 20, displayTypes |-> 12,
      flexProperties |-> 20, gridProperties |-> 15, positions |-> 8,
      textTransforms |-> 6, textDecorations |-> 8, breakpoints |-> 15,
      animations |-> 15 ]

DeclaredTolerance ==
    [ fontSizes |-> 1000, fontWeights |-> 50000, lineHeights |-> 500,
      letterSpacing |-> 100, spacing |-> 2000, borderRadius |-> 2000,
      opacities |-> 50, zIndex |-> 10000, gaps |-> 2000, widths |-> 10000,
      heights |-> 10000, breakpoints |-> 20000 ]

DeclaredNumeric == DOMAIN DeclaredTolerance

DeclaredString == DOMAIN DeclaredCapacity \ DeclaredNumeric

\* The list of category c as the forEach of the last merge left it, before
\* the sort and the slice.
Pushed(c) == ForEachPush(last.before[c], last.newPatterns[c], ToleranceArg(c), 1)

\* The positions of list l whose entry lies within tolerance tol of v.
Near(l, v, tol) == { i \in 1..Len(l) : Abs(l[i].v - v.v) < tol }

IsSortedAsc(l) == \A i \in 1..Len(l) - 1 : l[i].v <= l[i + 1].v

\* C1: in every reachable state each of the 26 category lists is no longer
\* than the capacity declared for it.
C1_CapacityRespected ==
    /\ DOMAIN DeclaredCapacity = CategorySet
    /\ \A c \in CategorySet : Len(paywallPatterns[c]) <= DeclaredCapacity[c]

\* A merge that offered every category more values than its capacity.
C1_Witness ==
    /\ last.op = "merge"
    /\ \A c \in CategorySet :
        /\ Len(Pushed(c)) > DeclaredCapacity[c]
        /\ Len(paywallPatterns[c]) = DeclaredCapacity[c]

\* C2: no numeric category list holds two entries, at different positions,
\* closer to each other than the category's tolerance; 0 included.
C2_NoTwoWithinTolerance ==
    \A c \in DeclaredNumeric :
        \A i, j \in 1..Len(paywallPatterns[c]) :
            i # j => Abs(paywallPatterns[c][i].v - paywallPatterns[c][j].v)
                        >= DeclaredTolerance[c]

\* C3: tolerance dedup.  (One snapshot) when the stored list holds nothing
\* within tolerance of the first value v of the snapshot, after the merge
\* exactly one entry lies within tolerance of v, and it is v.  (Two snapshots)
\* when v is stored with no other entry within tolerance of it and the
\* snapshot carries a value within tolerance of v, after the merge v is still
\* the one entry within tolerance of v.
C3_ToleranceDedup ==
    last.op = "merge" =>
        \A c \in DeclaredNumeric :
            LET tol == DeclaredTolerance[c]
                old == last.before[c]
                new == last.newPatterns[c]
                now == paywallPatterns[c]
                OnlyV(v) == /\ Cardinality(Near(now, v, tol)) = 1
                            /\ \A k \in Near(now, v, tol) : now[k] = v
            IN  /\ (Len(new) > 0 /\ Near(old, new[1], tol) = {})
                        => OnlyV(new[1])
                /\ \A i \in 1..Len(old) :
                        (/\ Near(old, old[i], tol) = {i}
                         /\ Near(new, old[i], tol) # {})
                        => OnlyV(old[i])

\* C4: after every merge each numeric category list is in ascending order.
C4_NumericSorted ==
    \A c \in DeclaredNumeric : IsSortedAsc(paywallPatterns[c])

\* A merge whose pushes left a list out of order before the sort.
C4_Witness ==
    /\ last.op = "merge"
    /\ \E c \in DeclaredNumeric :
        /\ ~IsSortedAsc(Pushed(c))
        /\ Len(paywallPatterns[c]) > 2

\* C5: count is the number of merge calls since the start or the last reset:
\* a merge call raises it by one, a reset sets it to 0, a read or a rejected
\* upload leaves it alone.
C5_CountIsMergeCalls ==
    /\ paywallPatterns.count = Len(merged)
    /\ last.op = "merge" => paywallPatterns.count = last.before.count + 1
    /\ last.op \in {"read", "rejected"} => paywallPatterns.count = last.before.count
    /\ last.op = "reset" => paywallPatterns.count = 0

\* The second merge or a later one, of a snapshot with values in many lists.
C5_Witness ==
    /\ last.op = "merge"
    /\ paywallPatterns.count >= 2
    /\ \A c \in CategorySet : Len(last.newPatterns[c]) > 0

\* C6: after a reset the profile is the initial one, and what was merged
\* before the reset is gone for good: every stored value, layouts record,
\* custom-property group and component comes from a snapshot merged since.
C6_ResetRestoresInitial ==
    /\ last.op = "reset" =>
        /\ paywallPatterns.count = 0
        /\ \A c \in DOMAIN DeclaredCapacity : paywallPatterns[c] = <<>>
        /\ paywallPatterns.layouts = <<>>
        /\ DOMAIN paywallPatterns.commonStyles = {}
        /\ DOMAIN paywallPatterns.componentStyles = {}
        /\ DOMAIN paywallPatterns =
             DOMAIN DeclaredCapacity \cup {"layouts", "commonStyles", "componentStyles", "count"}
    /\ \A c \in DOMAIN DeclaredCapacity :
         \A i \in 1..Len(paywallPatterns[c]) :
            \E k \in 1..Len(merged) : Includes(merged[k][c], paywallPatterns[c][i])
    /\ Len(paywallPatterns.layouts) <= Len(merged)
    /\ \A key \in DOMAIN paywallPatterns.commonStyles :
         \E k \in 1..Len(merged) : key \in DOMAIN merged[k].commonStyles
    /\ \A key \in DOMAIN paywallPatterns.componentStyles :
         \E k \in 1..Len(merged) : key \in DOMAIN merged[k].componentStyles

\* A reset of a profile that two or more merges had filled.
C6_Witness ==
    /\ last.op = "reset"
    /\ last.cleared.count >= 2
    /\ last.cleared.colors = DeclaredCapacity.colors

\* The handlers of `running` that are inside mergePaywallPatterns.
Merging == { h \in 1..Len(running) : running[h].kind \in {"upload", "batch"} }

\* C7: requests in flight never interleave their merges.  At most one
\* handler is between the first and the last statement of its merges;
\* whenever none is, the profile is what running the handlers called so far
\* one at a time, in the order they were called, gives; and every read of the
\* profile (the GET handler, the guidance text, the count an upload answers
\* with) sees such a profile.
C7_HandlersSerialized ==
    /\ Cardinality(Merging) <= 1
    /\ Merging = {} => paywallPatterns = serial
    /\ last.op = "read" => last.patterns = last.expected
    /\ last.op = "answer" => last.count = last.expected

\* A merge between its first and last statement while a generation request
\* is suspended and another upload waits.
C7_Witness ==
    /\ \E h \in Merging : running[h].pc \in 2..LastMergeStep
    /\ \E h \in 1..Len(running) : running[h].kind = "generate"
    /\ Len(inflight) > 0
    /\ inflight[1].kind \in {"upload", "batch", "reset"}
    /\ paywallPatterns # serial

\* The first n distinct values of s, in order of first appearance.
RECURSIVE FirstDistinct(_, _, _, _)
FirstDistinct(s, i, acc, n) ==
    IF i > Len(s) \/ Len(acc) >= n THEN acc
    ELSE FirstDistinct(s, i + 1, IF Includes(acc, s[i]) THEN acc ELSE Append(acc, s[i]), n)

\* The values of category c in the snapshots merged since the last reset,
\* in merge order.
RECURSIVE Offered(_, _, _)
Offered(c, k, acc) ==
    IF k > Len(merged) \/ Len(acc) < 0 THEN acc
    ELSE Offered(c, k + 1, acc \o merged[k][c])

RECURSIVE KeptByTolerance(_, _, _, _)
KeptByTolerance(list, values, tol, i) ==
    IF i > Len(values) \/ Len(list) < 0 THEN list
    ELSE KeptByTolerance(IF Near(list, values[i], tol) = {} THEN Append(list, values[i])
                         ELSE list,
                         values, tol, i + 1)

\* C9: after a merge a numeric list is the ascending sort of the list before
\* the merge plus the snapshot values not absorbed by tolerance, cut to the
\* `capacity` smallest entries.
C9_SortThenCutLargest ==
    last.op = "merge" =>
        \A c \in DeclaredNumeric :
            paywallPatterns[c] =
                Take(SortAsc(KeptByTolerance(last.before[c], last.newPatterns[c],
                                             DeclaredTolerance[c], 1)),
                     DeclaredCapacity[c])

\* C10: layouts is the history of the layouts records of the merged
\* snapshots, in merge order, cut to the 50 most recent.
C10_LayoutsLastFifty ==
    /\ paywallPatterns.layouts =
          TakeLast([k \in 1..Len(merged) |-> merged[k].layouts], 50)
    /\ last.op = "merge" =>
          paywallPatterns.layouts[Len(paywallPatterns.layouts)] = last.newPatterns.layouts

\* More than 50 merges, the oldest of a document with a button: its record
\* is gone and the records of the 50 latest are there.
C10_Witness ==
    /\ Len(merged) > 50
    /\ merged[1].layouts.buttons = 1
    /\ Len(paywallPatterns.layouts) = 50
    /\ \A i \in 1..50 : paywallPatterns.layouts[i].buttons = 0

\* The property `name` of object `obj`, or `default` when the object lacks it.
Get(obj, name, default) == IF name \in DOMAIN obj THEN obj[name] ELSE default

\* C11: for each archetype and property of the merged snapshot's
\* componentStyles, the profile's list after the merge is the list before
\* the merge followed by the snapshot's values it did not hold, cut to 5; so
\* an earlier document's values stay while fewer than 5 are stored.
C11_ComponentStylesUnion ==
    last.op = "merge" =>
        LET new == last.newPatterns.componentStyles
            old == last.before.componentStyles
            now == paywallPatterns.componentStyles
        IN  \A component \in DOMAIN new :
                \A property \in DOMAIN new[component] :
                    LET before == Get(Get(old, component, <<>>), property, <<>>)
                        snapshot == new[component][property]
                    IN  /\ component \in DOMAIN now
                        /\ property \in DOMAIN now[component]
                        /\ now[component][property] =
                              FirstDistinct(before \o snapshot, 1, <<>>, 5)

\* C12: custom properties are last-writer-wins per property name.  After a
\* merge every custom property of the snapshot has the snapshot's value, and
\* every custom property the profile held before and the snapshot lacks is
\* still in commonStyles.cssVariables with the value it had.
C12_CssVariablesPerName ==
    last.op = "merge" =>
        LET new == Get(last.newPatterns.commonStyles, "cssVariables", <<>>)
            old == Get(last.before.commonStyles, "cssVariables", <<>>)
            now == Get(paywallPatterns.commonStyles, "cssVariables", <<>>)
        IN  /\ \A name \in DOMAIN new : name \in DOMAIN now /\ now[name] = new[name]
            /\ \A name \in (DOMAIN old) \ (DOMAIN new) :
                    name \in DOMAIN now /\ now[name] = old[name]

RECURSIVE TextsDeclarations(_)
TextsDeclarations(texts) ==
    IF texts = << >> THEN << >>
    ELSE LET RECURSIVE OfBlocks(_)
             OfBlocks(blocks) == IF blocks = << >> THEN << >>
                                 ELSE Head(blocks).decls \o OfBlocks(Tail(blocks))
         IN  OfBlocks(Head(texts)) \o TextsDeclarations(Tail(texts))

AllDeclarations(html) == TextsDeclarations(html.styles \o html.inline)

NoTwoEqual(list) == \A i, j \in 1..Len(list) : i # j => list[i] # list[j]

\* C14: no category list of a snapshot returned by extract holds the same
\* value twice, string or number, also when the document writes one number
\* in two textual forms (10 and 10.0).
C14_SnapshotDeduplicated ==
    last.op = "merge" =>
        \A c \in CategorySet : NoTwoEqual(last.newPatterns[c])

Unstyled(html) == html.styles = << >> /\ html.inline = << >>

\* C15 as stated: the snapshot of a document with no <style> element and no
\* style attribute, whatever else it contains, has every category list
\* empty and the five layouts counts 0.
C15_UnstyledAllZero ==
    (last.op = "merge" /\ Unstyled(last.html)) =>
        /\ \A c \in CategorySet : last.newPatterns[c] = << >>
        /\ \A k \in {"buttons", "cards", "containers", "inputs", "modals"} :
              last.newPatterns.layouts[k] = 0

\* C15 as amended: the snapshot of such a document has every category list
\* empty, no custom property and no component style, and each of the five
\* layouts counts is the number of elements of the document that match its
\* selector group (0 when there is none); extract returns it without error.
C15_UnstyledListsEmpty ==
    (last.op = "merge" /\ Unstyled(last.html)) =>
        /\ \A c \in CategorySet : last.newPatterns[c] = << >>
        /\ DOMAIN last.newPatterns.commonStyles = {}
        /\ DOMAIN last.newPatterns.componentStyles = {}
        /\ DOMAIN last.newPatterns.layouts =
              {"buttons", "cards", "containers", "inputs", "modals"}
        /\ \A k \in DOMAIN last.newPatterns.layouts :
              last.newPatterns.layouts[k] = last.html.elements[k]

\* The upload of a document without style text that has buttons and a card.
C15_Witness ==
    /\ last.op = "merge"
    /\ Unstyled(last.html)
    /\ last.html.elements.buttons = 2
    /\ last.newPatterns.layouts.cards = 1
    /\ paywallPatterns.count = 1

\* The values a document declares for the properties `props`.
DeclaredValues(html, props) ==
    LET decls == AllDeclarations(html)
    IN  { decls[i].val : i \in { k \in 1..Len(decls) : decls[k].prop \in props } }

\* The font weights a document declares, in thousandths: the whole part of
\* a number, 700 for bold, 400 for normal.
DeclaredWeights(html) ==
    LET vals == DeclaredValues(html, {"font-weight"})
    IN  { (v.n \div 1000) * 1000 : v \in { w \in vals : w.kind = "num" /\ w.n >= 0 } }
        \cup (IF Word("bold") \in vals THEN {700000} ELSE {})
        \cup (IF Word("normal") \in vals THEN {400000} ELSE {})

AllNumbers(list) == \A i \in 1..Len(list) : list[i].type = "number"

\* The first merge after the start or a reset, of a document that declares
\* the keyword.
KeywordIntoEmpty(keyword) ==
    /\ last.op = "merge"
    /\ last.before = InitialPaywallPatterns
    /\ Word(keyword) \in DeclaredValues(last.html, {"font-weight"})

\* C16 as stated: no fontWeights list, of the profile or of a snapshot, ever
\* holds a string, and merging into an empty profile a document that
\* declares font-weight bold (normal) leaves 700 (400) in profile.fontWeights.
C16_KeywordLeavesNumber ==
    /\ AllNumbers(paywallPatterns.fontWeights)
    /\ \A k \in 1..Len(merged) : AllNumbers(merged[k].fontWeights)
    /\ KeywordIntoEmpty("bold") => Includes(paywallPatterns.fontWeights, Num(700000))
    /\ KeywordIntoEmpty("normal") => Includes(paywallPatterns.fontWeights, Num(400000))

\* The number w of a keyword is neither cut from the snapshot (fewer than
\* ten smaller weights declared) nor absorbed at the merge (no declared
\* weight less than 50 below it).
WeightKept(html, w) ==
    /\ Cardinality({ x \in DeclaredWeights(html) : x < w }) < 10
    /\ \A x \in DeclaredWeights(html) : ~(w - 50000 < x /\ x < w)

\* C16 as amended: no fontWeights list ever holds a string; merging into an
\* empty profile a document that declares font-weight bold (normal) leaves
\* 700 (400) in profile.fontWeights when the document declares fewer than
\* ten smaller weights and none less than 50 below it, and otherwise the
\* keyword still adds no string.
C16_KeywordLeavesNumberIfKept ==
    /\ AllNumbers(paywallPatterns.fontWeights)
    /\ \A k \in 1..Len(merged) : AllNumbers(merged[k].fontWeights)
    /\ (KeywordIntoEmpty("bold") /\ WeightKept(last.html, 700000))
          => Includes(paywallPatterns.fontWeights, Num(700000))
    /\ (KeywordIntoEmpty("normal") /\ WeightKept(last.html, 400000))
          => Includes(paywallPatterns.fontWeights, Num(400000))

\* A document whose only weight is the keyword bold, in a style attribute,
\* merged into the empty profile.
C16_Witness ==
    /\ KeywordIntoEmpty("bold")
    /\ DeclaredValues(last.html, {"font-weight"}) = {Word("bold")}
    /\ paywallPatterns.fontWeights = << Num(700000) >>

\* The property names of the padding/margin rule and of the border-radius rule.
SpacingProps ==
    { "padding", "padding-top", "padding-right", "padding-bottom", "padding-left",
      "margin", "margin-top", "margin-right", "margin-bottom", "margin-left" }

RadiusProps == {"border-radius"}

\* The numbers a document declares for the properties `props`.
DeclaredNumbers(html, props) ==
    { v \in DeclaredValues(html, props) : v.kind = "num" }

\* The document of scenario A, and what the claim says of its snapshot.
IsScenarioA(html) ==
    /\ html.inline = << >>
    /\ html.styles =
         << << [selector |-> "body",
                decls |-> << [prop |-> "color", val |-> [kind |-> "word", w |-> "#FF0000"]],
                             [prop |-> "padding",
                              val |-> [kind |-> "num", n |-> 10000, form |-> 0, unit |-> "px"]],
                             [prop |-> "border-radius",
                              val |-> [kind |-> "num", n |-> 8000, form |-> 0, unit |-> "px"]] >>] >> >>

ScenarioAHolds ==
    (last.op = "merge" /\ IsScenarioA(last.html)) =>
        /\ last.newPatterns.colors = << [type |-> "string", v |-> "#FF0000"] >>
        /\ last.newPatterns.spacing = << [type |-> "number", v |-> 10000] >>
        /\ last.newPatterns.borderRadius = << [type |-> "number", v |-> 8000] >>

\* Every entry of the snapshot list is a number, the value of one of the
\* document's declarations without its unit.
OnlyDeclaredNumbers(list, html, props) ==
    \A i \in 1..Len(list) :
        /\ list[i].type = "number"
        /\ \E v \in DeclaredNumbers(html, props) : v.n = list[i].v

\* C20 as stated: scenario A, and every padding/margin or border-radius
\* number a document declares is in the snapshot as a number, without unit.
C20_ScenarioA ==
    /\ ScenarioAHolds
    /\ last.op = "merge" =>
          /\ OnlyDeclaredNumbers(last.newPatterns.spacing, last.html, SpacingProps)
          /\ OnlyDeclaredNumbers(last.newPatterns.borderRadius, last.html, RadiusProps)
          /\ \A v \in DeclaredNumbers(last.html, SpacingProps) :
                Includes(last.newPatterns.spacing, Num(v.n))
          /\ \A v \in DeclaredNumbers(last.html, RadiusProps) :
                Includes(last.newPatterns.borderRadius, Num(v.n))

\* The declared number v is not negative and fewer than `cap` smaller
\* numbers are written for the same rule (a number written in two forms
\* counts twice).
WithinCap(html, props, v, cap) ==
    /\ v.n >= 0
    /\ Cardinality({ <<w.n, w.form>> : w \in { x \in DeclaredNumbers(html, props) :
                                                 x.n >= 0 /\ x.n < v.n } }) < cap

\* C20 as amended: scenario A as stated; in general every entry of a
\* snapshot's spacing and borderRadius is a number, a declared value without
\* its unit, and a declared padding/margin (border-radius) number that is
\* not negative is in the snapshot when the document writes fewer than 25
\* (15) smaller such numbers.
C20_ScenarioAAndKeptNumbers ==
    /\ ScenarioAHolds
    /\ last.op = "merge" =>
          /\ OnlyDeclaredNumbers(last.newPatterns.spacing, last.html, SpacingProps)
          /\ OnlyDeclaredNumbers(last.newPatterns.borderRadius, last.html, RadiusProps)
          /\ \A v \in DeclaredNumbers(last.html, SpacingProps) :
                WithinCap(last.html, SpacingProps, v, 25)
                    => Includes(last.newPatterns.spacing, Num(v.n))
          /\ \A v \in DeclaredNumbers(last.html, RadiusProps) :
                WithinCap(last.html, RadiusProps, v, 15)
                    => Includes(last.newPatterns.borderRadius, Num(v.n))

\* The upload of the document of scenario A.
C20_Witness ==
    /\ last.op = "merge"
    /\ IsScenarioA(last.html)
    /\ last.newPatterns.spacing = << [type |-> "number", v |-> 10000] >>
    /\ paywallPatterns.borderRadius = << [type |-> "number", v |-> 8000] >>

\* The snapshots of the files of a batch that throw no error, in order.
RECURSIVE SnapshotsOfGood(_)
SnapshotsOfGood(files) ==
    IF files = << >> THEN << >>
    ELSE (IF Head(files).error = "" THEN << HtmlSnapshot[Head(files).html] >> ELSE << >>)
         \o SnapshotsOfGood(Tail(files))

\* C17: in a batch upload the failure of one file is caught for that file
\* alone.  The results hold one record per file, in order: success = false
\* with the error's message for a file that threw, success = true with its
\* snapshot for the others; every file that did not throw was merged,
\* those behind a failed one included; and the request answers success.
C17_BatchFailureIsolated ==
    last.op = "batch" =>
        /\ Len(last.results) = Len(last.files)
        /\ \A i \in 1..Len(last.files) :
              IF last.files[i].error # ""
              THEN /\ last.results[i].success = FALSE
                   /\ last.results[i].error = last.files[i].error
              ELSE /\ last.results[i].success = TRUE
                   /\ last.results[i].patterns = HtmlSnapshot[last.files[i].html]
        /\ paywallPatterns = MergeAll(last.before, SnapshotsOfGood(last.files), 1)
        /\ paywallPatterns.count = last.before.count + Len(SnapshotsOfGood(last.files))
        /\ last.answer.success = TRUE
        /\ last.answer.totalPaywallsAnalyzed = paywallPatterns.count

\* A batch whose first file threw and whose second file was merged.
C17_Witness ==
    /\ last.op = "batch"
    /\ Len(last.files) = 2
    /\ last.files[1].error # ""
    /\ last.files[2].error = ""
    /\ last.files[2].html.styles # << >>
    /\ paywallPatterns.count = last.before.count + 1
    /\ paywallPatterns.fontWeights # << >>

\* The request whose handler the step calls, if the step calls one.
Called(kinds) ==
    /\ inflight # << >>
    /\ inflight' = Tail(inflight)
    /\ Head(inflight).kind \in kinds

\* The step is a statement of mergePaywallPatterns of a running upload.
MergeStatement ==
    \E h \in Merging : h \notin DOMAIN running' \/ running'[h] # running[h]

\* C19: the profile changes only in merge and reset.  A step that changes a
\* field of the profile is a statement of mergePaywallPatterns or the DELETE
\* handler; the extract of an upload, the GET handler, the start of the
\* generation handler and its guidance rendering, and an upload rejected with
\* 400 leave every field as it was.
C19_OnlyMergeAndReset ==
    [][ /\ paywallPatterns' # paywallPatterns => MergeStatement \/ Called({"reset"})
        /\ Called({"upload", "batch", "read", "generate", "nofile"})
              => paywallPatterns' = paywallPatterns
        /\ (Len(running') < Len(running) /\ ~MergeStatement)
              => paywallPatterns' = paywallPatterns ]_vars

\* The guidance text or the GET answer built from a profile that holds two
\* merged documents.
C19_Witness ==
    /\ last.op = "read"
    /\ last.patterns.count = 2
    /\ paywallPatterns = last.patterns
    /\ paywallPatterns.colors # << >>

\* The fields of the categories an object lacks or holds no list in.
NoList(obj) ==
    { c \in CategorySet : c \notin DOMAIN obj \/ ~IsArray(obj[c]) }

\* C21: merge of an object that lacks fields.  Each category whose field is
\* missing or not a list keeps its stored list, a missing commonStyles or
\* componentStyles leaves that map as it was, and an object without any
\* field changes nothing but the count.
C21_MissingFieldsNoOp ==
    last.op = "merge" =>
        LET obj == last.newPatterns
        IN  /\ \A c \in NoList(obj) : paywallPatterns[c] = last.before[c]
            /\ "commonStyles" \notin DOMAIN obj
                  => paywallPatterns.commonStyles = last.before.commonStyles
            /\ "componentStyles" \notin DOMAIN obj
                  => paywallPatterns.componentStyles = last.before.componentStyles
            /\ (NoList(obj) = CategorySet /\ DOMAIN obj \subseteq CategorySet)
                  => paywallPatterns = [last.before EXCEPT !.count = @ + 1]

\* C22: commonStyles is merged shallowly.  After a merge the profile's
\* commonStyles has the snapshot's value under every top-level key of the
\* snapshot's commonStyles, and its previous value under every other key.
C22_CommonStylesShallow ==
    (last.op = "merge" /\ "commonStyles" \in DOMAIN last.newPatterns) =>
        LET new == last.newPatterns.commonStyles
            old == last.before.commonStyles
            now == paywallPatterns.commonStyles
        IN  /\ DOMAIN now = (DOMAIN old) \cup (DOMAIN new)
            /\ \A k \in DOMAIN new : now[k] = new[k]
            /\ \A k \in (DOMAIN old) \ (DOMAIN new) : now[k] = old[k]

\* A merge whose snapshot overwrites one top-level key and lacks another.
C22_Witness ==
    /\ last.op = "merge"
    /\ "commonStyles" \in DOMAIN last.newPatterns
    /\ DOMAIN last.newPatterns.commonStyles = {"theme"}
    /\ DOMAIN last.before.commonStyles = {"theme", "cssVariables"}
    /\ last.before.commonStyles.theme # last.newPatterns.commonStyles.theme
    /\ paywallPatterns.commonStyles.theme = last.newPatterns.commonStyles.theme
    /\ paywallPatterns.commonStyles.cssVariables = last.before.commonStyles.cssVariables

ValidNumber(c, n) ==
    /\ n.type = "number"
    /\ c \in {"fontSizes", "lineHeights"} => n.v > 0
    /\ c = "opacities" => n.v >= 0 /\ n.v <= 1000

\* `list` holds the `cap` smallest valid numbers of the texts of `set`, in
\* ascending order.
SmallestValid(c, set, list, cap) ==
    LET valid == { i \in 1..Len(set) : ValidNumber(c, Number(set[i])) }
    IN  /\ \A j \in 1..Len(list) : ValidNumber(c, list[j])
        /\ IsSortedAsc(list)
        /\ Len(list) = (IF Cardinality(valid) < cap THEN Cardinality(valid) ELSE cap)
        /\ \A j \in 1..Len(list) : \E i \in valid : Number(set[i]) = list[j]
        /\ \A i \in valid :
              \/ \E j \in 1..Len(list) : list[j] = Number(set[i])
              \/ Len(list) = cap /\ list[cap].v <= Number(set[i]).v

\* `list` holds the first `cap` entries of `set`, in the order of `set`.
FirstSeen(set, list, cap) ==
    /\ Len(list) = (IF Len(set) < cap THEN Len(set) ELSE cap)
    /\ \A j \in 1..Len(list) : list[j] = set[j]

RelativeUnits == {"%", "vw", "vh"}

\* The numbers the declarations of `props` give in another unit, or none.
AbsoluteNumbers(html, props) ==
    { v.n : v \in { w \in DeclaredNumbers(html, props) : w.unit \notin RelativeUnits } }

\* The numbers of `list` are not those the declarations of `props` give as
\* a percentage or in a viewport unit only.
NoRelative(html, list, props, found) ==
    \A v \in DeclaredNumbers(html, props) :
        (v.unit \in RelativeUnits /\ v.n \notin AbsoluteNumbers(html, found))
            => ~Includes(list, Num(v.n))

\* C25: a width or height given as a percentage or in a viewport unit adds
\* nothing to the widths or heights of the snapshot.
C25_RelativeSizesLeftOut ==
    last.op = "merge" =>
        /\ NoRelative(last.html, last.newPatterns.widths,
                      {"width", "min-width", "max-width"}, RuleProps.widths)
        /\ NoRelative(last.html, last.newPatterns.heights,
                      {"height", "min-height", "max-height"}, RuleProps.heights)

\* The section of category c in a guidance text, if it has one.
SectionsOf(guidance, c) ==
    { i \in 1..Len(guidance.sections) : guidance.sections[i].category = c }

\* The section lists a prefix of `list`, in the order of `list`.
ListsPrefix(section, list) ==
    /\ Len(section.text.items) <= Len(list)
    /\ \A i \in 1..Len(section.text.items) : section.text.items[i].value = list[i]

\* C26: the guidance text has, for every category the profile stores, a
\* section that lists a prefix of the stored list, in stored order.
C26_EveryCategoryListed ==
    (last.op = "guidance" /\ last.patterns.count > 0) =>
        \A c \in CategorySet :
            /\ SectionsOf(last.patternGuidance, c) # {}
            /\ \A i \in SectionsOf(last.patternGuidance, c) :
                  ListsPrefix(last.patternGuidance.sections[i], last.patterns[c])

\* The categories the guidance text lists, and how many values of each.
ListedCategories ==
    { "colors", "fonts", "fontSizes", "fontWeights", "lineHeights", "spacing",
      "borderRadius", "shadows", "borders", "transitions", "gaps", "breakpoints" }

ListedCount(c) ==
    IF c = "colors" THEN 20
    ELSE IF c = "spacing" THEN 15
    ELSE IF c \in {"fontSizes", "borderRadius"} THEN 12
    ELSE IF c \in {"fonts", "lineHeights", "gaps"} THEN 10
    ELSE 8

\* C26, amended: with a count above 0 the guidance text has a section for
\* each of twelve categories and for no other; the section lists the first
\* values of the stored list, in stored order, as many as the category's
\* display count allows.  With count 0 it has no section.
C26_TwelveCategoriesListed ==
    last.op = "guidance" =>
        IF last.patterns.count = 0 THEN last.patternGuidance.sections = << >>
        ELSE \A c \in CategorySet :
                IF c \in ListedCategories
                THEN /\ Cardinality(SectionsOf(last.patternGuidance, c)) = 1
                     /\ \A i \in SectionsOf(last.patternGuidance, c) :
                          LET section == last.patternGuidance.sections[i]
                              stored == last.patterns[c]
                          IN  /\ ListsPrefix(section, stored)
                              /\ Len(section.text.items) =
                                    (IF Len(stored) < ListedCount(c) THEN Len(stored)
                                     ELSE ListedCount(c))
                ELSE SectionsOf(last.patternGuidance, c) = {}

\* A guidance text of a profile whose lists are longer than the display
\* counts.
C26_Witness ==
    /\ last.op = "guidance"
    /\ last.patterns.count = 2
    /\ \A c \in ListedCategories : Len(last.patterns[c]) > ListedCount(c)
    /\ Len(last.patternGuidance.sections) = 12
    /\ Len(last.patternGuidance.sections[1].text.items) = 20
    /\ last.patterns.letterSpacing # << >>

\* C27: in every reachable state the layouts history has as many records
\* as merges were counted, and 50 once more than 50 were.
C27_LayoutsLengthIsCount ==
    Len(paywallPatterns.layouts) =
        (IF paywallPatterns.count < 50 THEN paywallPatterns.count ELSE 50)

\* Two merges past the fiftieth.
C27_Witness ==
    /\ paywallPatterns.count = 52
    /\ Len(paywallPatterns.layouts) = 50
    /\ last.op = "merge"
    /\ Len(last.before.layouts) = 50

\* The snapshots merged since the last reset that carry `x` in category c.
CarriedBy(c, x) == { k \in 1..Len(merged) : Includes(merged[k][c], x) }

\* C28: every value stored in a category list of the profile was carried in
\* that same category by a snapshot merged since the last reset.
C28_ValuesComeFromSnapshots ==
    \A c \in CategorySet :
        \A i \in 1..Len(paywallPatterns[c]) : CarriedBy(c, paywallPatterns[c][i]) # {}

\* After two merges a list holds a value only the first snapshot carried
\* and a value only the second carried, and not every value of the second.
C28_Witness ==
    /\ last.op = "merge"
    /\ Len(merged) = 2
    /\ \E c \in NumericCategories :
          /\ \E i \in 1..Len(paywallPatterns[c]) : CarriedBy(c, paywallPatterns[c][i]) = {1}
          /\ \E i \in 1..Len(paywallPatterns[c]) : CarriedBy(c, paywallPatterns[c][i]) = {2}
          /\ \E j \in 1..Len(merged[2][c]) : ~Includes(paywallPatterns[c], merged[2][c][j])

\* The last two calls of mergePaywallPatterns were given the same snapshot.
SameSnapshotTwice ==
    /\ last.op = "merge"
    /\ Len(merged) >= 2
    /\ merged[Len(merged) - 1] = last.newPatterns

\* C29: merging the same snapshot a second time, right after the first,
\* leaves every one of the 26 category lists as the first merge left it.
C29_SecondMergeChangesNoList ==
    SameSnapshotTwice => \A c \in CategorySet : paywallPatterns[c] = last.before[c]

\* The files of the last request that were reported with success = true.
ReportedSuccess ==
    IF last.op = "batch"
    THEN Cardinality({ i \in 1..Len(last.results) : last.results[i].success })
    ELSE IF last.op = "merge" THEN 1
    ELSE 0

\* C30: count is the number of files reported with success = true since
\* the last reset.  Every upload request, single or batch, raises count by
\* the number of its files it reports as succeeded, a failed file raises
\* nothing, a reset sets it to 0, and the batch answer reports the count.
C30_CountIsReportedSuccesses ==
    /\ last.op \in {"init", "reset"} => paywallPatterns.count = 0
    /\ last.op \in {"merge", "batch", "rejected", "failed"}
          => paywallPatterns.count = last.before.count + ReportedSuccess
    /\ last.op = "batch" => last.answer.totalPaywallsAnalyzed = paywallPatterns.count
    /\ paywallPatterns.count = Len(merged)

\* A batch behind one upload, one of its two files failed.
C30_Witness ==
    /\ last.op = "batch"
    /\ last.before.count = 1
    /\ Len(last.results) = 2
    /\ last.results[1].success
    /\ ~last.results[2].success
    /\ paywallPatterns.count = 2
    /\ last.answer.totalPaywallsAnalyzed = 2

====
